---- MODULE Spec2Model ----
(***************************************************************************)
(* GoCardless webhook endpoint of payments/payment_gateways/doctype/       *)
(* gocardless_settings/__init__.py: webhooks(), set_status() and its three *)
(* handlers, authenticate_signature() and the webhook secret cache.        *)
(*                                                                         *)
(* One call of webhooks() is followed by a program counter:                *)
(*   idle -> auth -> parse -> dispatch (one step per event) -> done.       *)
(* An exception that leaves webhooks() ends the request with the           *)
(* exception's name as the response.  The records are shown as the         *)
(* handlers write them; what the framework does with the database          *)
(* transaction of a call that raised is outside this module.  Comments on  *)
(* the Payment Request are counted, not stored.                            *)
(***************************************************************************)
EXTENDS Integers, Sequences, FiniteSets, TLC

VARIABLES
  req,          \* frappe.request of the call in flight
  pc,           \* position inside webhooks()
  idx,          \* index of the next event of the batch to hand to set_status
  authOk,       \* what authenticate_signature returned for this request
  response,     \* what webhooks() returned or raised
  raisedAt,     \* index of the event whose handler raised (0: none)
  settings,     \* webhooks_secret of every GoCardless Settings record
  cache,        \* frappe.cache() entry "gocardless_webhooks_secret"
  erpnext,      \* "erpnext" in frappe.get_installed_apps()
  mandates,     \* GoCardless Mandate records: id -> disabled
  pr,           \* the Payment Request record PR001
  calls,        \* how often set_as_paid / set_as_cancelled were invoked
  ledger,       \* Journal Entry records inserted so far
  journal_entry,\* the last Journal Entry document built by create_payout_journal
  errorLog,     \* titles given to frappe.log_error by the request in flight
  trace,        \* the handler each set_status call of this request invoked
  before,       \* the records as they were when webhooks() was entered
  hist,         \* get_webhook_keys / clear_cache calls so far, and the last answer
  readers,      \* concurrent get_webhook_keys calls: position and local value
  workers       \* concurrent set_payment_request_status calls: position and doc

vars == <<req, pc, idx, authOk, response, raisedAt, settings, cache, erpnext,
          mandates, pr, calls, ledger, journal_entry, errorLog, trace, before,
          hist, readers, workers>>

(***************************************************************************)
(* Bounds of the model.                                                    *)
(***************************************************************************)
MaxBatch == 2          \* events per batch
MaxSettings == 2       \* GoCardless Settings records in the pure-function check
MaxOps == 4            \* get_webhook_keys / settings change / clear_cache calls

(***************************************************************************)
(* Values.                                                                 *)
(***************************************************************************)
Absent == "<absent>"   \* a key that is missing from a dict (dict.get gives None)

MandateIds == {"MD001", "MD002"}
Secrets == {"K1", "K2"}
ForgedKey == "K9"      \* a key no settings record holds
Statuses == {"Draft", "Initiated", "Paid", "Cancelled", "Failed"}
EnablingActions ==
  {"pending_customer_approval", "pending_submission", "submitted", "active"}

\* One element of event["links"]: the role-name -> id mapping.
Link(m, p, o) == [mandate |-> m, payment |-> p, payout |-> o]
NoLinks == [shape |-> "absent", items |-> <<>>]
MapLinks(l) == [shape |-> "map", items |-> <<l>>]
ListLinks(ls) == [shape |-> "list", items |-> ls]

Event(rt, act, lk, desc, dt, dn) ==
  [ resource_type |-> rt, action |-> act, links |-> lk, description |-> desc,
    reference_doctype |-> dt, reference_document |-> dn ]

(***************************************************************************)
(* Events the sender puts in a batch.                                      *)
(***************************************************************************)
EvMandateActive ==
  Event("mandates", "active", MapLinks(Link("MD001", Absent, Absent)),
        Absent, Absent, Absent)
EvMandateFailed ==
  Event("mandates", "failed", MapLinks(Link("MD002", Absent, Absent)),
        Absent, Absent, Absent)
EvMandateList ==
  Event("mandates", "cancelled",
        ListLinks(<<Link("MD001", Absent, Absent), Link("MD002", Absent, Absent)>>),
        Absent, Absent, Absent)
EvMandateNoLink ==
  Event("mandates", "active", MapLinks(Link(Absent, Absent, Absent)),
        Absent, Absent, Absent)
EvPaySubmitted ==
  Event("payments", "submitted", MapLinks(Link(Absent, "PM01", Absent)),
        Absent, "Payment Request", "PR001")
EvPayConfirmed ==
  Event("payments", "confirmed", NoLinks, Absent, "Payment Request", "PR001")
EvPayFailed ==
  Event("payments", "failed", MapLinks(Link(Absent, "PM01", Absent)),
        "insufficient_funds", "Payment Request", "PR001")
EvPayMissingDoc ==
  Event("payments", "confirmed", NoLinks, Absent, "Payment Request", "PR404")
EvPayNoRef ==
  Event("payments", "confirmed", NoLinks, Absent, "Payment Request", Absent)
EvPayOtherDoctype ==
  Event("payments", "confirmed", NoLinks, Absent, "Sales Invoice", "SINV01")
EvPayout ==
  Event("payouts", "paid", MapLinks(Link(Absent, Absent, "PO01")),
        Absent, Absent, Absent)
EvPayoutNoLinks ==
  Event("payouts", "paid", NoLinks, Absent, Absent, Absent)
EvUnknown ==
  Event("unknown_future_type", "created", NoLinks, Absent, Absent, Absent)

\* The events batches are built from.
BatchEvents ==
  { EvMandateActive, EvMandateFailed, EvMandateList, EvMandateNoLink,
    EvPaySubmitted, EvPayConfirmed, EvPayFailed, EvPayMissingDoc, EvPayNoRef,
    EvPayOtherDoctype, EvPayout, EvPayoutNoLinks, EvUnknown }

\* Every combination of the fields the handlers read.
AllLinks ==
  { NoLinks,
    MapLinks(Link("MD001", Absent, Absent)),
    MapLinks(Link(Absent, "PM01", "PO01")),
    ListLinks(<<Link("MD001", Absent, Absent), Link("MD002", Absent, Absent)>>),
    ListLinks(<<Link("MD002", Absent, Absent), Link(Absent, "PM01", Absent)>>) }
AllActions ==
  EnablingActions \cup {"confirmed", "cancelled", "failed", "expired", Absent}
AllEvents ==
  { Event("mandates", act, lk, Absent, dt, Absent) :
      act \in AllActions, lk \in AllLinks, dt \in {Absent, "Payment Request"} }
  \cup
  { Event("payments", act, lk, desc, dt, dn) :
      act \in AllActions, lk \in AllLinks,
      desc \in {Absent, "insufficient_funds"},
      dt \in {Absent, "Payment Request", "Sales Invoice"},
      dn \in {Absent, "", "PR001", "PR404"} }
  \cup
  { Event(rt, "paid", lk, Absent, dt, Absent) :
      rt \in {"payouts", "unknown_future_type"}, lk \in AllLinks,
      dt \in {Absent, "Payment Request"} }

(***************************************************************************)
(* Request bodies (r.get_data()) and the Webhook-Signature header.         *)
(***************************************************************************)
SeqsUpTo(S, n) == UNION { [1..k -> S] : k \in 0..n }

Body(kind, events) == [kind |-> kind, events |-> events]
EmptyBody == Body("empty", <<>>)          \* b""
MalformedBody == Body("malformed", <<>>)  \* not JSON
NullBody == Body("null", <<>>)            \* JSON that is falsy: null, {}, []
NoEventsBody == Body("noevents", <<>>)    \* an object without "events"
BatchBody(events) == Body("batch", events)

Bodies ==
  {EmptyBody, MalformedBody, NullBody, NoEventsBody}
    \cup { BatchBody(es) : es \in SeqsUpTo(BatchEvents, MaxBatch) }

\* hmac.new(key, body, sha256).hexdigest(): an injective function of key and body.
Hmac(key, body) == [key |-> key, msg |-> body]
EmptySig == [key |-> "", msg |-> EmptyBody]      \* the empty string

NoHeader == [present |-> FALSE, value |-> EmptySig]
Header(sig) == [present |-> TRUE, value |-> sig]

\* The headers a sender may attach to body b.
HeadersFor(b) ==
  {NoHeader, Header(EmptySig)}
    \cup { Header(Hmac(k, b)) : k \in Secrets \cup {ForgedKey} }
    \cup { Header(Hmac(k, NoEventsBody)) : k \in Secrets }

NoRequest == [bound |-> FALSE, body |-> EmptyBody, header |-> NoHeader]
Request(b, h) == [bound |-> TRUE, body |-> b, header |-> h]

(***************************************************************************)
(* Secret cache: get_webhook_keys / clear_cache.                           *)
(***************************************************************************)
NoCache == [set |-> FALSE, value |-> <<>>]
Cached(v) == [set |-> TRUE, value |-> v]

\* _get_webhook_keys: the non-empty secrets of all settings records.
QueryWebhookKeys(records) == SelectSeq(records, LAMBDA s : s # "")

\* get_webhook_keys with an empty cached list taken for a missing one.
\* get_webhook_keys: frappe.cache().get_value(key, generator) runs the
\* generator and stores its result only when nothing is cached.
get_webhook_keys_empty_is_miss(c, records) ==
  IF c.set /\ c.value # <<>>
    THEN [keys |-> c.value, cache |-> c, queried |-> FALSE]
  ELSE [ keys |-> QueryWebhookKeys(records),
         cache |-> Cached(QueryWebhookKeys(records)),
         queried |-> TRUE ]

get_webhook_keys(c, records) ==
  IF c.set THEN [keys |-> c.value, cache |-> c, queried |-> FALSE]
  ELSE [ keys |-> QueryWebhookKeys(records),
         cache |-> Cached(QueryWebhookKeys(records)),
         queried |-> TRUE ]

\* The record of calls after a get_webhook_keys call that gave `got`.
AfterGet(h, got) ==
  [h EXCEPT !.ops = @ + 1, !.sinceClear = @ + 1,
            !.queried = got.queried, !.returned = got.keys]

(***************************************************************************)
(* authenticate_signature.                                                 *)
(***************************************************************************)
\* A loop that stops after the first key, whether or not it matched.
MatchesFirstKeyOnly(body, sig, keys) ==
  IF keys = <<>> THEN FALSE ELSE sig = Hmac(Head(keys), body)

RECURSIVE MatchesAnyKey(_, _, _)
\* the loop of lines 170-173: first key whose digest equals the signature
MatchesAnyKey(body, sig, keys) ==
  IF keys = <<>> THEN FALSE
  ELSE IF sig = Hmac(Head(keys), body) THEN TRUE
  ELSE MatchesAnyKey(body, sig, Tail(keys))

authenticate_signature(body, header, keys) ==
  IF ~header.present \/ header.value = EmptySig THEN FALSE
  ELSE MatchesAnyKey(body, header.value, keys)

(***************************************************************************)
(* The records the handlers touch, gathered in one value w:                *)
(*   w.mandates, w.pr, w.calls, w.ledger, w.journal_entry, w.errorLog      *)
(* A handler yields [raised |-> exception name or "none", w |-> records].  *)
(***************************************************************************)
Returned(w) == [raised |-> "none", w |-> w]
Raised(exc, w) == [raised |-> exc, w |-> w]

(***************************************************************************)
(* set_mandate_status.                                                     *)
(***************************************************************************)
\* The enabling actions with "pending_submission" left out.
MandateDisabledShortList(action) ==
  IF action \in {"pending_customer_approval", "submitted", "active"} THEN 0 ELSE 1

\* lines 53-61
MandateDisabled(action) == IF action \in EnablingActions THEN 0 ELSE 1

\* lines 46-51: the ids collected from links (a list, or a single mapping)
LinkedMandates(event) ==
  { event.links.items[i].mandate : i \in DOMAIN event.links.items }

\* event["links"], link["mandate"] and event["action"] raise KeyError when the
\* key is missing; all of them are read before the first set_value.
MandateKeyError(event) ==
  \/ event.links.shape = "absent"
  \/ \E i \in DOMAIN event.links.items : event.links.items[i].mandate = Absent
  \/ event.action = Absent

set_mandate_status(event, w) ==
  IF MandateKeyError(event) THEN Raised("KeyError", w)
  ELSE Returned([w EXCEPT !.mandates =
         [m \in DOMAIN w.mandates |->
            IF m \in LinkedMandates(event) THEN MandateDisabled(event.action)
            ELSE w.mandates[m]]])

(***************************************************************************)
(* set_payment_request_status.                                             *)
(***************************************************************************)
\* event.get("links", {}).get("payment"): a list-shaped links has no .get
PaymentId(event) ==
  IF event.links.shape = "map" THEN event.links.items[1].payment ELSE Absent

\* A comment put together from the action and the description only.
PaymentCommentWithoutLink(event) ==
  (IF event.action # Absent THEN <<<<"capitalize", event.action>>>> ELSE <<>>)
    \o (IF event.description # Absent THEN <<<<"br", event.description>>>> ELSE <<>>)

\* lines 72-78: the parts the comment is put together from
PaymentComment(event) ==
  (IF event.action # Absent THEN <<<<"capitalize", event.action>>>> ELSE <<>>)
    \o (IF event.description # Absent THEN <<<<"br", event.description>>>> ELSE <<>>)
    \o (IF PaymentId(event) # Absent THEN <<<<"href", PaymentId(event)>>>> ELSE <<>>)

\* line 84: doc.add_comment
AddComment(doc, comment) ==
  IF comment # <<>> THEN [doc EXCEPT !.comments = @ + 1] ELSE doc

\* Lines 85-92 with the "already Paid" check of line 87 dropped.
ApplyPaymentActionUnguarded(event, w, doc) ==
  IF event.action = "submitted" /\ doc.status # "Initiated"
    THEN [w EXCEPT !.pr = [doc EXCEPT !.status = "Initiated"],
                   !.calls.db_set = @ + 1]
  ELSE IF event.action = "confirmed"
    THEN [w EXCEPT !.pr = [doc EXCEPT !.status = "Paid"],
                   !.calls.set_as_paid = @ + 1]
  ELSE IF event.action = "cancelled" /\ doc.status # "Cancelled"
    THEN [w EXCEPT !.pr = [doc EXCEPT !.status = "Cancelled"],
                   !.calls.set_as_cancelled = @ + 1]
  ELSE IF event.action = "failed" /\ doc.status # "Failed"
    THEN [w EXCEPT !.pr = [doc EXCEPT !.status = "Failed"],
                   !.calls.db_set = @ + 1]
  ELSE [w EXCEPT !.pr = doc]

\* Lines 85-92 with a request that is Paid never taken back to Initiated.
ApplyPaymentActionForward(event, w, doc) ==
  IF event.action = "submitted" /\ doc.status \notin {"Initiated", "Paid"}
    THEN [w EXCEPT !.pr = [doc EXCEPT !.status = "Initiated"],
                   !.calls.db_set = @ + 1]
  ELSE IF event.action = "confirmed" /\ doc.status # "Paid"
    THEN [w EXCEPT !.pr = [doc EXCEPT !.status = "Paid"],
                   !.calls.set_as_paid = @ + 1]
  ELSE IF event.action = "cancelled" /\ doc.status # "Cancelled"
    THEN [w EXCEPT !.pr = [doc EXCEPT !.status = "Cancelled"],
                   !.calls.set_as_cancelled = @ + 1]
  ELSE IF event.action = "failed" /\ doc.status # "Failed"
    THEN [w EXCEPT !.pr = [doc EXCEPT !.status = "Failed"],
                   !.calls.db_set = @ + 1]
  ELSE [w EXCEPT !.pr = doc]

\* Lines 85-92 with the checks against the current status dropped for the
\* two direct writes.
ApplyPaymentActionAlwaysWrites(event, w, doc) ==
  IF event.action = "submitted"
    THEN [w EXCEPT !.pr = [doc EXCEPT !.status = "Initiated"],
                   !.calls.db_set = @ + 1]
  ELSE IF event.action = "confirmed" /\ doc.status # "Paid"
    THEN [w EXCEPT !.pr = [doc EXCEPT !.status = "Paid"],
                   !.calls.set_as_paid = @ + 1]
  ELSE IF event.action = "cancelled" /\ doc.status # "Cancelled"
    THEN [w EXCEPT !.pr = [doc EXCEPT !.status = "Cancelled"],
                   !.calls.set_as_cancelled = @ + 1]
  ELSE IF event.action = "failed"
    THEN [w EXCEPT !.pr = [doc EXCEPT !.status = "Failed"],
                   !.calls.db_set = @ + 1]
  ELSE [w EXCEPT !.pr = doc]

\* lines 85-92 on the loaded document: the status write or transition of the
\* action; calls counts doc.db_set("status", ...), set_as_paid, set_as_cancelled
ApplyPaymentAction(event, w, doc) ==
  IF event.action = "submitted" /\ doc.status # "Initiated"
    THEN [w EXCEPT !.pr = [doc EXCEPT !.status = "Initiated"],
                   !.calls.db_set = @ + 1]
  ELSE IF event.action = "confirmed" /\ doc.status # "Paid"
    THEN [w EXCEPT !.pr = [doc EXCEPT !.status = "Paid"],
                   !.calls.set_as_paid = @ + 1]
  ELSE IF event.action = "cancelled" /\ doc.status # "Cancelled"
    THEN [w EXCEPT !.pr = [doc EXCEPT !.status = "Cancelled"],
                   !.calls.set_as_cancelled = @ + 1]
  ELSE IF event.action = "failed" /\ doc.status # "Failed"
    THEN [w EXCEPT !.pr = [doc EXCEPT !.status = "Failed"],
                   !.calls.db_set = @ + 1]
  ELSE [w EXCEPT !.pr = doc]

\* What doc.db_set("failed_reason", ...) throws when the Payment Request
\* table has no such column: the KeyError line 95 expects, or the error of
\* the database.  Which one is decided by the record store, not by this file.
ColumnErrors == {"KeyError", "OperationalError"}

\* lines 93-96, entered after the write of line 92; w holds status Failed
StoreFailedReason(event, w, env) ==
  IF event.description = Absent THEN Returned(w)     \* KeyError of line 94
  ELSE IF w.pr.has_failed_reason
    THEN Returned([w EXCEPT !.pr.failed_reason = event.description])
  ELSE IF env.column = "KeyError" THEN Returned(w)
  ELSE Raised(env.column, w)

set_payment_request_status(event, w, env) ==
  IF event.links.shape = "list" THEN Raised("AttributeError", w)
  ELSE IF event.reference_document \in {Absent, ""} THEN Returned(w)
  ELSE IF event.reference_document # "PR001" THEN Raised("DoesNotExistError", w)
  ELSE LET doc == AddComment(w.pr, PaymentComment(event))
           applied == ApplyPaymentAction(event, w, doc)
       IN IF event.action = "failed" /\ doc.status # "Failed"
            THEN StoreFailedReason(event, applied, env)
            ELSE Returned(applied)

(***************************************************************************)
(* create_payout_journal.                                                  *)
(***************************************************************************)
\* float(x) / 100: minor units to major units, kept as units and hundredths
ToMajor(minor) == [units |-> minor \div 100, cents |-> minor % 100]
MajorZero == [units |-> 0, cents |-> 0]
MajorAdd(a, b) ==
  [ units |-> a.units + b.units + ((a.cents + b.cents) \div 100),
    cents |-> (a.cents + b.cents) % 100 ]

\* lines 126-155: the three lines of the Journal Entry
JournalLines(payout) ==
  << [ account |-> "deposit_account",
       debit |-> ToMajor(payout.amount), credit |-> MajorZero ],
     [ account |-> "fees_account",
       debit |-> MajorZero, credit |-> ToMajor(payout.deducted_fees) ],
     [ account |-> "payment_account",
       debit |-> MajorZero,
       credit |-> MajorAdd(ToMajor(payout.amount),
                           ToMajor(payout.deducted_fees)) ] >>

NoJournal == [lines |-> <<>>, docstatus |-> 0 - 1]
JournalEntry(payout, docstatus) ==
  [lines |-> JournalLines(payout), docstatus |-> docstatus]

\* The step of lines 102-157 that throws, or "none".
PayoutSteps == {"settings", "api", "bank_account", "insert", "submit", "none"}
PayoutFailure(event, env) ==
  IF event.links.shape # "map" THEN "links"           \* None.get / list.get
  ELSE IF env.fail = "settings" THEN "settings"
  ELSE IF event.links.items[1].payout = Absent THEN "api"  \* payouts.get(None)
  ELSE env.fail

LogPayoutError(w) ==
  [w EXCEPT !.errorLog = Append(@, "GoCardless Payout Journal Creation Error")]

\* A try block that ends before insert(): what the ledger throws escapes.
create_payout_journal_open(event, w, env) ==
  LET fail == PayoutFailure(event, env) IN
  IF fail \in {"links", "settings", "api", "bank_account"}
    THEN Returned(LogPayoutError(w))
  ELSE IF fail = "insert"
    THEN Raised("ValidationError",
                [w EXCEPT !.journal_entry = JournalEntry(env.payout, 0)])
  ELSE IF fail = "submit"
    THEN Raised("ValidationError",
                [w EXCEPT !.journal_entry = JournalEntry(env.payout, 0),
                          !.ledger = Append(@, JournalEntry(env.payout, 0))])
  ELSE Returned([w EXCEPT !.journal_entry = JournalEntry(env.payout, 1),
                          !.ledger = Append(@, JournalEntry(env.payout, 1))])

\* Everything thrown inside the try block is caught at line 158 and logged.
create_payout_journal(event, w, env) ==
  LET fail == PayoutFailure(event, env) IN
  IF fail \in {"links", "settings", "api", "bank_account"}
    THEN Returned(LogPayoutError(w))
  ELSE IF fail = "insert"
    THEN Returned(LogPayoutError(
           [w EXCEPT !.journal_entry = JournalEntry(env.payout, 0)]))
  ELSE IF fail = "submit"
    THEN Returned(LogPayoutError(
           [w EXCEPT !.journal_entry = JournalEntry(env.payout, 0),
                     !.ledger = Append(@, JournalEntry(env.payout, 0))]))
  ELSE Returned([w EXCEPT !.journal_entry = JournalEntry(env.payout, 1),
                          !.ledger = Append(@, JournalEntry(env.payout, 1))])

(***************************************************************************)
(* set_status: routing of one event.                                       *)
(***************************************************************************)
\* Routing that sends every payments event to the payment handler.
HandlerAnyDoctype(event, installed) ==
  IF event.resource_type = "mandates" THEN "set_mandate_status"
  ELSE IF event.resource_type = "payments" THEN "set_payment_request_status"
  ELSE IF event.resource_type = "payouts" /\ installed
    THEN "create_payout_journal"
  ELSE "none"

\* lines 33-41: the handler the event is routed to, "none" when it is skipped
Handler(event, installed) ==
  IF event.resource_type = "mandates" THEN "set_mandate_status"
  ELSE IF event.resource_type = "payments"
          /\ event.reference_doctype = "Payment Request"
    THEN "set_payment_request_status"
  ELSE IF event.resource_type = "payouts" /\ installed
    THEN "create_payout_journal"
  ELSE "none"

\* A dispatcher that rejects the resource types it does not know.
set_status_strict(event, w, env, installed) ==
  LET h == Handler(event, installed) IN
  IF h = "set_mandate_status" THEN set_mandate_status(event, w)
  ELSE IF h = "set_payment_request_status"
    THEN set_payment_request_status(event, w, env)
  ELSE IF h = "create_payout_journal" THEN create_payout_journal(event, w, env)
  ELSE IF event.resource_type \in {"payments", "payouts"} THEN Returned(w)
  ELSE Raised("ValueError", w)

set_status(event, w, env, installed) ==
  LET h == Handler(event, installed) IN
  IF h = "set_mandate_status" THEN set_mandate_status(event, w)
  ELSE IF h = "set_payment_request_status"
    THEN set_payment_request_status(event, w, env)
  ELSE IF h = "create_payout_journal" THEN create_payout_journal(event, w, env)
  ELSE Returned(w)

(***************************************************************************)
(* The state machine.                                                      *)
(***************************************************************************)
World ==
  [ mandates |-> mandates, pr |-> pr, calls |-> calls, ledger |-> ledger,
    journal_entry |-> journal_entry, errorLog |-> errorLog ]

Events == req.body.events

\* The records that outlive the request.
Records == [mandates |-> mandates, pr |-> pr, calls |-> calls, ledger |-> ledger]

\* What the payment processor's API and the ledger answer to one payout event.
PayoutResources == { [amount |-> 10000, deducted_fees |-> 250] }
PayoutEnvs ==
  [fail : PayoutSteps, payout : PayoutResources, column : ColumnErrors]
WidePayoutResources ==
  [amount : {0, 1, 99, 4999, 10000}, deducted_fees : {0, 1, 250}]
WidePayoutEnvs ==
  [fail : PayoutSteps, payout : WidePayoutResources, column : ColumnErrors]

\* An empty body taken for an empty batch instead of a JSON error.
ParseErrorEmptyAllowed(body) ==
  IF body.kind = "malformed" THEN "JSONDecodeError"
  ELSE IF body.kind = "null" THEN "TypeError"
  ELSE IF body.kind = "noevents" THEN "KeyError"
  ELSE "none"

\* json.loads(r.get_data()) or [], then ["events"]: the exception of line 22/23
ParseError(body) ==
  IF body.kind \in {"empty", "malformed"} THEN "JSONDecodeError"
  ELSE IF body.kind = "null" THEN "TypeError"
  ELSE IF body.kind = "noevents" THEN "KeyError"
  ELSE "none"

SettingsFixtures == { <<>>, <<"", "K1">>, <<"K2", "K1">> }

\* A Payment Request; has_failed_reason: the doctype has the failed_reason
\* field (ERPNext 16 and later).
PaymentRequestOn(status, has_field) ==
  [ status |-> status, failed_reason |-> Absent, comments |-> 0,
    has_failed_reason |-> has_field ]
PaymentRequest(status) == PaymentRequestOn(status, TRUE)

NoCalls == [set_as_paid |-> 0, set_as_cancelled |-> 0, db_set |-> 0]

\* Nothing asked of the secret cache yet.
NoHist ==
  [ ops |-> 0, sinceClear |-> 0, queried |-> FALSE, returned |-> <<>>,
    writer |-> "idle" ]
Readers == {"r1", "r2"}
Workers == {"w1", "w2"}
IdleReaders ==
  [r \in Readers |-> [pc |-> "idle", value |-> <<>>, afterClear |-> FALSE]]
IdleWorkers == [k \in Workers |-> [pc |-> "idle", status |-> Absent]]
Idle ==
  /\ hist = NoHist
  /\ readers = IdleReaders
  /\ workers = IdleWorkers

InitRecords ==
  /\ mandates = [m \in MandateIds |-> IF m = "MD001" THEN 1 ELSE 0]
  /\ pr \in { PaymentRequest(s) : s \in Statuses }
  /\ calls = NoCalls
  /\ ledger = <<>>
  /\ journal_entry = NoJournal
  /\ errorLog = <<>>
  /\ trace = <<>>
  /\ before = Records
  /\ Idle

Init ==
  /\ req = NoRequest
  /\ pc = "idle"
  /\ idx = 0
  /\ authOk = FALSE
  /\ response = "pending"
  /\ raisedAt = 0
  /\ settings \in SettingsFixtures
  /\ cache = NoCache
  /\ erpnext \in BOOLEAN
  /\ InitRecords

\* lines 14-17: a call of webhooks(); without a request it returns at once
Call(r) ==
  /\ pc = "idle"
  /\ req' = r
  /\ pc' = IF r.bound THEN "auth" ELSE "done"
  /\ response' = IF r.bound THEN "pending" ELSE "None"
  /\ before' = Records
  /\ UNCHANGED <<idx, authOk, raisedAt, settings, cache, erpnext, mandates, pr,
                 calls, ledger, journal_entry, errorLog, trace, hist, readers,
                 workers>>

\* webhooks() without the raise of line 20: a failed check is not acted on.
AuthenticateWithoutRaise ==
  /\ pc = "auth"
  /\ LET got == get_webhook_keys(cache, settings)
         ok == authenticate_signature(req.body, req.header, got.keys)
     IN /\ authOk' = ok
        /\ cache' = got.cache
        /\ hist' = AfterGet(hist, got)
        /\ pc' = "parse"
        /\ response' = response
  /\ UNCHANGED <<req, idx, raisedAt, settings, erpnext, mandates, pr, calls,
                 ledger, journal_entry, errorLog, trace, before, readers,
                 workers>>

\* lines 19-20: get_webhook_keys is reached only past the check of line 167
Authenticate ==
  /\ pc = "auth"
  /\ LET got == get_webhook_keys(cache, settings)
         ok == authenticate_signature(req.body, req.header, got.keys)
     IN /\ authOk' = ok
        /\ cache' = IF ~req.header.present \/ req.header.value = EmptySig
                      THEN cache ELSE got.cache
        /\ hist' = IF ~req.header.present \/ req.header.value = EmptySig
                     THEN hist ELSE AfterGet(hist, got)
        /\ pc' = IF ok THEN "parse" ELSE "done"
        /\ response' = IF ok THEN response ELSE "AuthenticationError"
  /\ UNCHANGED <<req, idx, raisedAt, settings, erpnext, mandates, pr, calls,
                 ledger, journal_entry, errorLog, trace, before, readers,
                 workers>>

\* line 22 and the subscript of line 23
Parse ==
  /\ pc = "parse"
  /\ IF ParseError(req.body) = "none"
       THEN pc' = "dispatch" /\ idx' = 1 /\ response' = response
       ELSE pc' = "done" /\ idx' = idx /\ response' = ParseError(req.body)
  /\ UNCHANGED <<req, authOk, raisedAt, settings, cache, erpnext, mandates, pr,
                 calls, ledger, journal_entry, errorLog, trace, before, hist,
                 readers, workers>>

\* Only create_payout_journal asks the API and the ledger anything, and only
\* set_payment_request_status writes a column that may be missing.
AnswersFor(event, installed, envs) ==
  LET any == CHOOSE env \in envs : TRUE IN
  IF Handler(event, installed) = "create_payout_journal"
    THEN { env \in envs : env.column = any.column }
  ELSE IF Handler(event, installed) = "set_payment_request_status"
    THEN { env \in envs : env.fail = any.fail /\ env.payout = any.payout }
  ELSE { any }

\* lines 23-24: one iteration of the loop; an exception leaves webhooks()
DispatchWith(envs) ==
  /\ pc = "dispatch"
  /\ idx <= Len(Events)
  /\ trace' = Append(trace, Handler(Events[idx], erpnext))
  /\ \E env \in AnswersFor(Events[idx], erpnext, envs) :
       LET r == set_status(Events[idx], World, env, erpnext) IN
         /\ mandates' = r.w.mandates
         /\ pr' = r.w.pr
         /\ calls' = r.w.calls
         /\ ledger' = r.w.ledger
         /\ journal_entry' = r.w.journal_entry
         /\ errorLog' = r.w.errorLog
         /\ IF r.raised = "none"
              THEN /\ idx' = idx + 1
                   /\ UNCHANGED <<pc, response, raisedAt>>
              ELSE /\ pc' = "done"
                   /\ response' = r.raised
                   /\ raisedAt' = idx
                   /\ idx' = idx
  /\ UNCHANGED <<req, authOk, settings, cache, erpnext, before, hist, readers,
                 workers>>

Dispatch == DispatchWith(PayoutEnvs)

\* lines 27-29: log the batch and return 200
Finish ==
  /\ pc = "dispatch"
  /\ idx > Len(Events)
  /\ errorLog' = Append(errorLog, "GoCardless Webhook")
  /\ response' = "200"
  /\ pc' = "done"
  /\ UNCHANGED <<req, idx, authOk, raisedAt, settings, cache, erpnext, mandates,
                 pr, calls, ledger, journal_entry, trace, before, hist, readers,
                 workers>>

Requests ==
  {NoRequest} \cup UNION { { Request(b, h) : h \in HeadersFor(b) } : b \in Bodies }

Next ==
  \/ pc = "idle" /\ \E r \in Requests : Call(r)
  \/ Authenticate
  \/ Parse
  \/ Dispatch
  \/ Finish

Spec == Init /\ [][Next]_vars

(***************************************************************************)
(* authenticate_signature on its own: every body, header, cached key list  *)
(* and settings list within the bounds, then the one step that applies it. *)
(***************************************************************************)
AuthBodies == {EmptyBody, NoEventsBody, BatchBody(<<>>), BatchBody(<<EvUnknown>>)}
AuthRequests == UNION { { Request(b, h) : h \in HeadersFor(b) } : b \in AuthBodies }

InitAuth ==
  /\ req \in AuthRequests
  /\ pc = "auth"
  /\ idx = 0
  /\ authOk = FALSE
  /\ response = "pending"
  /\ raisedAt = 0
  /\ settings \in SeqsUpTo(Secrets \cup {""}, MaxSettings)
  /\ cache \in {NoCache} \cup { Cached(k) : k \in SeqsUpTo(Secrets, MaxSettings) }
  /\ erpnext = TRUE
  /\ mandates = [m \in MandateIds |-> 0]
  /\ pr = PaymentRequest("Draft")
  /\ calls = NoCalls
  /\ ledger = <<>>
  /\ journal_entry = NoJournal
  /\ errorLog = <<>>
  /\ trace = <<>>
  /\ before = Records
  /\ Idle

SpecAuth == InitAuth /\ [][Authenticate]_vars

(***************************************************************************)
(* set_status on its own: an authenticated batch of one event, for every   *)
(* event of AllEvents and every state of the records it is applied to.     *)
(***************************************************************************)
InitEvent ==
  /\ \E e \in AllEvents :
       req = Request(BatchBody(<<e>>), Header(Hmac("K1", BatchBody(<<e>>))))
  /\ pc = "dispatch"
  /\ idx = 1
  /\ authOk = TRUE
  /\ response = "pending"
  /\ raisedAt = 0
  /\ settings = <<"K1">>
  /\ cache = Cached(<<"K1">>)
  /\ erpnext \in BOOLEAN
  /\ mandates \in [MandateIds -> {0, 1}]
  /\ pr \in { PaymentRequestOn(s, f) : s \in Statuses, f \in BOOLEAN }
  /\ calls = NoCalls
  /\ ledger = <<>>
  /\ journal_entry = NoJournal
  /\ errorLog = <<>>
  /\ trace = <<>>
  /\ before = Records
  /\ Idle

DispatchWide == DispatchWith(WidePayoutEnvs)

NextEvent == DispatchWide \/ Finish

SpecEvent == InitEvent /\ [][NextEvent]_vars

(***************************************************************************)
(* Properties.                                                             *)
(***************************************************************************)
Range(f) == { f[i] : i \in DOMAIN f }
Parsed == ParseError(req.body) = "none"

\* C1: no handler is invoked and no mandate, payment-request or journal
\* record is changed unless authenticate_signature returned true for the
\* request; a request without a Webhook-Signature header ends in an
\* AuthenticationError with nothing dispatched and nothing changed.
C1_AuthBeforeDispatch ==
  /\ ~authOk => /\ trace = <<>>
                /\ idx = 0
                /\ Records = before
                /\ journal_entry = NoJournal
  /\ (pc = "done" /\ req.bound /\ ~req.header.present)
       => /\ response = "AuthenticationError"
          /\ ~authOk

C1_Witness ==
  /\ pc = "done"
  /\ req.bound
  /\ ~req.header.present
  /\ req.body.kind = "batch"
  /\ Len(Events) = 2
  /\ response = "AuthenticationError"
  /\ trace = <<>>

\* The keys authenticate_signature compared against: the cached list once
\* get_webhook_keys has run, else what the settings store would give.
KeysInForce ==
  IF cache.set THEN Range(cache.value) ELSE Range(QueryWebhookKeys(settings))

\* C2: authenticate_signature returns true exactly when the signature is
\* present, not empty, and equal to the HMAC of the body under at least one
\* of the secrets, whatever their number and order.
C2_AuthenticateIff ==
  pc # "auth" =>
    ( authOk <=> /\ req.header.present
                 /\ req.header.value # EmptySig
                 /\ \E k \in KeysInForce : req.header.value = Hmac(k, req.body) )

C2_Witness ==
  /\ pc = "parse"
  /\ authOk
  /\ Len(cache.value) = 2
  /\ cache.value[1] # cache.value[2]
  /\ req.header.value = Hmac(cache.value[2], req.body)

RECURSIVE SumOf(_, _)
\* the debit or credit total of a Journal Entry's lines
SumOf(lines, side) ==
  IF lines = <<>> THEN MajorZero
  ELSE MajorAdd(IF side = "debit" THEN Head(lines).debit ELSE Head(lines).credit,
                SumOf(Tail(lines), side))

\* C3: the Journal Entry built for a payout debits the deposit account by
\* amount, credits the fees account by deducted_fees, credits the payment
\* account by amount + deducted_fees, and its debits and credits both sum
\* to amount + deducted_fees.
C3_BalanceLaw ==
  journal_entry # NoJournal =>
    \E p \in WidePayoutResources :
      LET total == MajorAdd(ToMajor(p.amount), ToMajor(p.deducted_fees)) IN
        /\ Len(journal_entry.lines) = 3
        /\ journal_entry.lines[1].debit = ToMajor(p.amount)
        /\ journal_entry.lines[2].credit = ToMajor(p.deducted_fees)
        /\ journal_entry.lines[3].credit = total
        /\ SumOf(journal_entry.lines, "debit") = total
        /\ SumOf(journal_entry.lines, "credit") = total

\* C4: when the handling of event i fails, every later event of the batch
\* is still handed to set_status.
C4_FailureIsolation ==
  (pc = "done" /\ raisedAt > 0) => Len(trace) = Len(Events)

\* C5: a request that authenticates and parses ends with the batch written
\* to the log and the response 200, whatever happened to its events.
C5_AlwaysSuccess ==
  (pc = "done" /\ authOk /\ Parsed)
    => /\ response = "200"
       /\ "GoCardless Webhook" \in Range(errorLog)

\* A confirmed payment event for the Payment Request PR001 at position i.
ConfirmedAt(i) ==
  /\ i \in 1..Len(Events)
  /\ Events[i].resource_type = "payments"
  /\ Events[i].reference_doctype = "Payment Request"
  /\ Events[i].reference_document = "PR001"
  /\ Events[i].action = "confirmed"
  /\ Events[i].links.shape # "list"

FirstConfirmed == pc = "dispatch" /\ ConfirmedAt(idx) /\ pr.status # "Paid"
SecondConfirmed ==
  pc = "dispatch" /\ idx >= 2 /\ ConfirmedAt(idx) /\ Events[idx - 1] = Events[idx]

\* C6 as claimed: the first application of a confirmed event marks the
\* request paid, and applying the same event again right after it changes
\* nothing at all on the record.
C6_SecondIsNoOp ==
  [][ /\ FirstConfirmed => /\ pr'.status = "Paid"
                           /\ calls'.set_as_paid = calls.set_as_paid + 1
      /\ SecondConfirmed => /\ pr.status = "Paid"
                            /\ calls' = calls
                            /\ Records' = Records ]_vars

\* C6 as the code has it: the first application of a confirmed event marks
\* the request paid; applying the same event again right after it does not
\* invoke set_as_paid and leaves the status Paid, and its one effect on the
\* record is one more comment.
C6_SecondOnlyComments ==
  [][ /\ FirstConfirmed => /\ pr'.status = "Paid"
                           /\ calls'.set_as_paid = calls.set_as_paid + 1
      /\ SecondConfirmed => /\ pr.status = "Paid"
                            /\ calls' = calls
                            /\ pr'.status = "Paid"
                            /\ Records' = [Records EXCEPT !.pr.comments = @ + 1]
                            /\ pc' = "dispatch" ]_vars

C6_Witness ==
  /\ pc = "done"
  /\ response = "200"
  /\ Events = <<EvPayConfirmed, EvPayConfirmed>>
  /\ before.pr.status = "Initiated"
  /\ pr.status = "Paid"
  /\ calls.set_as_paid = 1
  /\ pr.comments = 2

\* C7: after set_mandate_status returns, every mandate named in links (one
\* mapping or a list of them) has disabled = 0 when the action is one of the
\* four enabling actions and 1 for any other action, and every mandate not
\* named, like every other record, is as it was.
C7_MandateMapping ==
  (idx = 2 /\ Events[1].resource_type = "mandates") =>
    /\ \A m \in MandateIds :
         mandates[m] =
           IF \E i \in DOMAIN Events[1].links.items :
                Events[1].links.items[i].mandate = m
             THEN IF Events[1].action \in
                       {"pending_customer_approval", "pending_submission",
                        "submitted", "active"}
                    THEN 0 ELSE 1
             ELSE before.mandates[m]
    /\ pr = before.pr
    /\ calls = before.calls
    /\ ledger = before.ledger

C7_Witness ==
  /\ idx = 2
  /\ Events[1].resource_type = "mandates"
  /\ Events[1].links.shape = "list"
  /\ Events[1].action = "pending_submission"
  /\ before.mandates = [m \in MandateIds |-> 1]
  /\ mandates = [m \in MandateIds |-> 0]

\* C8 as claimed: a request with an empty body is a no-op that raises
\* neither an authentication nor a parse error.
C8_EmptyBodyNoOp ==
  (pc = "done" /\ req.bound /\ req.body = EmptyBody)
    => /\ response = "None"
       /\ trace = <<>>
       /\ Records = before

\* C8 as the code has it: the early return is taken only when no request is
\* bound; a request with an empty body is authenticated like any other, ends
\* in AuthenticationError when the signature does not verify and in a parse
\* error when it does, and in both cases nothing is dispatched or changed.
C8_NoRequestNoOp ==
  /\ (pc = "done" /\ ~req.bound)
       => /\ response = "None"
          /\ ~authOk
          /\ cache = NoCache
          /\ trace = <<>>
          /\ errorLog = <<>>
          /\ Records = before
  /\ (pc = "done" /\ req.bound /\ req.body = EmptyBody)
       => /\ response = IF authOk THEN "JSONDecodeError" ELSE "AuthenticationError"
          /\ trace = <<>>
          /\ errorLog = <<>>
          /\ Records = before

C8_Witness ==
  /\ pc = "done"
  /\ req.bound
  /\ req.body = EmptyBody
  /\ authOk
  /\ response = "JSONDecodeError"

UnknownStep ==
  /\ pc = "dispatch"
  /\ idx <= Len(Events)
  /\ Events[idx].resource_type \notin {"mandates", "payments", "payouts"}

\* C9: an event of an unknown resource_type changes no record, raises
\* nothing and lets the loop go on to the next event; a request that does not
\* end in 200 was stopped by a mandates or payments event, never by an
\* unknown one; and a batch of one unknown event and one valid mandate event,
\* in either order, updates the mandate and returns 200.
C9_UnknownSkipped ==
  [][ /\ UnknownStep => /\ Records' = Records
                        /\ errorLog' = errorLog
                        /\ journal_entry' = journal_entry
                        /\ pc' = "dispatch"
                        /\ idx' = idx + 1
                        /\ response' = response
      /\ (pc' = "done" /\ authOk' /\ Parsed' /\ response' # "200")
           => /\ raisedAt' \in 1..Len(Events')
              /\ Events'[raisedAt'].resource_type \in {"mandates", "payments"}
      /\ (pc' = "done" /\ authOk'
            /\ Events' \in { <<EvUnknown, EvMandateActive>>,
                             <<EvMandateActive, EvUnknown>> })
           => /\ response' = "200"
              /\ mandates'["MD001"] = 0
              /\ Len(trace') = 2 ]_vars

C9_Witness ==
  /\ pc = "done"
  /\ Events = <<EvUnknown, EvMandateActive>>
  /\ response = "200"
  /\ before.mandates["MD001"] = 1
  /\ mandates["MD001"] = 0
  /\ trace = <<"none", "set_mandate_status">>

PayoutTitle == "GoCardless Payout Journal Creation Error"
PayoutStep ==
  /\ pc = "dispatch"
  /\ idx <= Len(Events)
  /\ Events[idx].resource_type = "payouts"
  /\ erpnext

\* C10: whatever step of create_payout_journal fails, the handler returns
\* normally with the failure logged (or, when nothing fails, with the entry
\* submitted), the loop goes on to the next event, no request is ever stopped
\* by a payouts event, and a batch of payouts events alone returns 200.
C10_PayoutFailureCaught ==
  [][ /\ PayoutStep =>
           /\ pc' = "dispatch"
           /\ idx' = idx + 1
           /\ raisedAt' = 0
           /\ response' = response
           /\ mandates' = mandates /\ pr' = pr /\ calls' = calls
           /\ \/ /\ errorLog' = errorLog
                 /\ Len(ledger') = Len(ledger) + 1
                 /\ ledger'[Len(ledger')].docstatus = 1
              \/ /\ errorLog' = Append(errorLog, PayoutTitle)
                 /\ \/ ledger' = ledger
                    \/ /\ Len(ledger') = Len(ledger) + 1
                       /\ ledger'[Len(ledger')].docstatus = 0
      /\ (pc' = "done" /\ raisedAt' > 0)
           => Events'[raisedAt'].resource_type # "payouts"
      /\ (pc' = "done" /\ authOk' /\ Parsed'
            /\ \A i \in DOMAIN Events' : Events'[i].resource_type = "payouts")
           => /\ response' = "200"
              /\ Len(trace') = Len(Events') ]_vars

C10_Witness ==
  /\ pc = "done"
  /\ erpnext
  /\ Events = <<EvPayout, EvMandateActive>>
  /\ ledger = <<JournalEntry([amount |-> 10000, deducted_fees |-> 250], 0)>>
  /\ errorLog = <<PayoutTitle, "GoCardless Webhook">>
  /\ mandates["MD001"] = 0
  /\ response = "200"

(***************************************************************************)
(* The secret cache on its own: get_webhook_keys, changes of the           *)
(* GoCardless Settings records and clear_cache, one call after another.    *)
(***************************************************************************)
webhookVars == <<req, pc, idx, authOk, response, raisedAt, erpnext, trace, before>>
recordVars == <<mandates, pr, calls, ledger, journal_entry, errorLog>>

GetKeys ==
  /\ hist.ops < MaxOps
  /\ LET got == get_webhook_keys(cache, settings)
     IN /\ cache' = got.cache
        /\ hist' = AfterGet(hist, got)
  /\ UNCHANGED <<webhookVars, recordVars, settings, readers, workers>>

ChangeSettings ==
  /\ hist.ops < MaxOps
  /\ settings' \in SettingsFixtures \ {settings}
  /\ hist' = [hist EXCEPT !.ops = @ + 1]
  /\ UNCHANGED <<webhookVars, recordVars, cache, readers, workers>>

ClearCache ==
  /\ hist.ops < MaxOps
  /\ cache' = NoCache
  /\ hist' = [hist EXCEPT !.ops = @ + 1, !.sinceClear = 0]
  /\ UNCHANGED <<webhookVars, recordVars, settings, readers, workers>>

InitCache ==
  /\ req = NoRequest
  /\ pc = "idle"
  /\ idx = 0
  /\ authOk = FALSE
  /\ response = "pending"
  /\ raisedAt = 0
  /\ settings \in SettingsFixtures
  /\ cache = NoCache
  /\ erpnext = TRUE
  /\ InitRecords

NextCache == GetKeys \/ ChangeSettings \/ ClearCache
SpecCache == InitCache /\ [][NextCache]_vars

\* C11: a get_webhook_keys call queries the settings store exactly when no
\* get_webhook_keys call came before it since the start or since the last
\* clear_cache; a call that queries stores and returns the non-empty secrets
\* configured at that moment, and every other call returns the cached list
\* and leaves the cache alone, whatever the settings have become.
C11_CacheProtocol ==
  [][ hist'.sinceClear = hist.sinceClear + 1 =>
        /\ hist'.queried <=> (hist.sinceClear = 0)
        /\ hist'.queried =>
             /\ cache' = Cached(QueryWebhookKeys(settings))
             /\ hist'.returned = QueryWebhookKeys(settings)
             /\ \A i \in 1..Len(hist'.returned) : hist'.returned[i] # ""
        /\ ~hist'.queried =>
             /\ cache' = cache
             /\ hist'.returned = cache.value ]_vars

\* A later call answered from the cache although the settings have changed.
C11_Witness ==
  /\ hist.sinceClear >= 2
  /\ ~hist.queried
  /\ hist.returned # QueryWebhookKeys(settings)
  /\ hist.returned = cache.value

\* C12: set_status invokes at most one handler for an event: the mandate
\* handler iff resource_type is mandates, the payment-request handler iff
\* resource_type is payments and reference_doctype is Payment Request, the
\* payout handler iff resource_type is payouts and the ledger integration is
\* installed; in every other case no handler runs, no record changes, nothing
\* is logged as an error and nothing is raised.
C12_Routing ==
  trace # <<>> =>
    LET e == Events[1]
        h == trace[1]
    IN /\ Len(trace) = 1
       /\ h \in {"set_mandate_status", "set_payment_request_status",
                 "create_payout_journal", "none"}
       /\ (h = "set_mandate_status") <=> (e.resource_type = "mandates")
       /\ (h = "set_payment_request_status") <=>
            (e.resource_type = "payments"
               /\ e.reference_doctype = "Payment Request")
       /\ (h = "create_payout_journal") <=>
            (e.resource_type = "payouts" /\ erpnext)
       /\ ~( e.resource_type = "mandates"
             \/ (e.resource_type = "payments"
                   /\ e.reference_doctype = "Payment Request")
             \/ (e.resource_type = "payouts" /\ erpnext) )
            => /\ h = "none"
               /\ Records = before
               /\ journal_entry = NoJournal
               /\ errorLog \in {<<>>, <<"GoCardless Webhook">>}
               /\ raisedAt = 0
               /\ response \in {"pending", "200"}
               /\ idx = 2

\* A payments event for another doctype, naming an existing record, skipped.
C12_Witness ==
  /\ trace = <<"none">>
  /\ Events[1].resource_type = "payments"
  /\ Events[1].reference_doctype = "Sales Invoice"
  /\ Events[1].reference_document = "PR001"
  /\ Events[1].action = "confirmed"
  /\ before.pr.status = "Initiated"
  /\ pr = before.pr
  /\ response = "200"

\* The one event was a payments event applied to the existing Payment Request
\* and set_payment_request_status returned.
PaymentApplied ==
  /\ trace = <<"set_payment_request_status">>
  /\ idx = 2
  /\ Events[1].reference_document = "PR001"

\* C13: after set_payment_request_status on an existing record of prior
\* status s, the status is Initiated for submitted, Paid for confirmed,
\* Cancelled for cancelled, Failed for failed and s for every other action;
\* the status write (db_set) or the transition (set_as_paid, set_as_cancelled)
\* is made exactly once when s differs from the target and not at all when s
\* is the target or the action is not one of the four.
C13_TransitionTable ==
  PaymentApplied =>
    LET a == Events[1].action
        s == before.pr.status
    IN /\ pr.status = IF a = "submitted" THEN "Initiated"
                      ELSE IF a = "confirmed" THEN "Paid"
                      ELSE IF a = "cancelled" THEN "Cancelled"
                      ELSE IF a = "failed" THEN "Failed"
                      ELSE s
       /\ calls.set_as_paid = IF a = "confirmed" /\ s # "Paid" THEN 1 ELSE 0
       /\ calls.set_as_cancelled =
            IF a = "cancelled" /\ s # "Cancelled" THEN 1 ELSE 0
       /\ calls.db_set =
            IF \/ a = "submitted" /\ s # "Initiated"
               \/ a = "failed" /\ s # "Failed"
              THEN 1 ELSE 0

\* A submitted event on a request that is already Initiated: nothing written.
C13_Witness ==
  /\ PaymentApplied
  /\ Events[1].action = "submitted"
  /\ before.pr.status = "Initiated"
  /\ pr.status = "Initiated"
  /\ calls = NoCalls

\* The one event was a failed payments event for the existing Payment
\* Request, whose status was not Failed, and lines 91-96 were reached.
FailedOnNotFailed ==
  /\ trace = <<"set_payment_request_status">>
  /\ Events[1].action = "failed"
  /\ Events[1].reference_document = "PR001"
  /\ Events[1].links.shape # "list"
  /\ before.pr.status # "Failed"

\* C16: for a failed payment event on a record whose status is not Failed the
\* status is set to Failed; when the record schema has no failed_reason field,
\* or the event carries no description, the attempt to store the reason is
\* ignored: nothing is raised, the handler returns and the status is Failed.
C16_FailedReasonIgnored ==
  FailedOnNotFailed =>
    /\ pr.status = "Failed"
    /\ (~before.pr.has_failed_reason \/ Events[1].description = Absent)
         => /\ raisedAt = 0
            /\ response \in {"pending", "200"}
            /\ idx = 2
            /\ pr.failed_reason = Absent

\* C17: a payments event routed to set_payment_request_status whose
\* reference_document is absent or empty is a complete no-op, whatever its
\* action, details and links: no comment, no status write, no transition, no
\* error.
C17_NoReferenceNoOp ==
  ( /\ trace = <<"set_payment_request_status">>
    /\ Events[1].reference_document \in {Absent, ""} )
    => /\ Records = before
       /\ journal_entry = NoJournal
       /\ errorLog \in {<<>>, <<"GoCardless Webhook">>}
       /\ raisedAt = 0
       /\ response \in {"pending", "200"}
       /\ idx = 2

\* The event lacks the field that identifies its target record.
MissingReference(e) ==
  \/ /\ e.resource_type = "mandates"
     /\ \/ e.links.shape = "absent"
        \/ \E i \in DOMAIN e.links.items : e.links.items[i].mandate = Absent
  \/ /\ e.resource_type = "payments"
     /\ e.reference_document \in {Absent, ""}
  \/ /\ e.resource_type = "payouts"
     /\ \A i \in DOMAIN e.links.items : e.links.items[i].payout = Absent

\* C18: an event that lacks the field identifying its target record
\* (links.mandate, reference_document, links.payout) is skipped silently:
\* set_status changes no record and raises nothing, and the loop goes on to
\* the next event of the batch.
C18_MissingReferenceSkipped ==
  [][ ( /\ pc = "dispatch"
        /\ idx <= Len(Events)
        /\ MissingReference(Events[idx]) )
      => /\ Records' = Records
         /\ journal_entry' = journal_entry
         /\ pc' = "dispatch"
         /\ idx' = idx + 1
         /\ response' = response ]_vars

\* C19: an application of a payments event to the existing Payment Request
\* appends exactly one comment when the action, the description or
\* links.payment is present and none when all three are absent, whatever the
\* action and the prior status are and whether or not the status changes; a
\* confirmed event on an Initiated record gives status Paid and one comment.
C19_CommentRule ==
  PaymentApplied =>
    LET e == Events[1] IN
    /\ pr.comments = before.pr.comments +
         ( IF \/ e.action # Absent
              \/ e.description # Absent
              \/ (e.links.shape = "map" /\ e.links.items[1].payment # Absent)
             THEN 1 ELSE 0 )
    /\ (e.action = "confirmed" /\ before.pr.status = "Initiated")
         => /\ pr.status = "Paid"
            /\ calls.set_as_paid = 1
            /\ pr.comments = before.pr.comments + 1

\* The link to the payment alone makes a comment, and the status stays.
C19_Witness ==
  /\ PaymentApplied
  /\ Events[1].action = Absent
  /\ Events[1].description = Absent
  /\ Events[1].links = MapLinks(Link(Absent, "PM01", "PO01"))
  /\ before.pr.status = "Paid"
  /\ pr.status = "Paid"
  /\ pr.comments = 1

\* Positions of the batch whose event sets the status of the Payment Request
\* PR001, and those whose event names mandate m.
StatusEvents ==
  { i \in 1..Len(Events) :
      /\ Events[i].resource_type = "payments"
      /\ Events[i].reference_doctype = "Payment Request"
      /\ Events[i].reference_document = "PR001"
      /\ Events[i].action \in {"submitted", "confirmed", "cancelled", "failed"} }
MandateEvents(m) ==
  { i \in 1..Len(Events) :
      /\ Events[i].resource_type = "mandates"
      /\ \E j \in DOMAIN Events[i].links.items :
           Events[i].links.items[j].mandate = m }
Last(S) == CHOOSE i \in S : \A j \in S : j <= i

\* C20: the events of a batch are applied in sequence order and the last one
\* wins: when every event was applied (the request returns 200), the Payment
\* Request has the target status of the last submitted / confirmed / cancelled
\* / failed event for it, whatever the status was before (so submitted after
\* confirmed takes a Paid record back to Initiated), and each mandate has the
\* disabled value of the last mandates event naming it; a record no event
\* sets is as it was.
C20_LastEventWins ==
  (pc = "done" /\ response = "200") =>
    /\ Len(trace) = Len(Events)
    /\ pr.status =
         IF StatusEvents = {} THEN before.pr.status
         ELSE LET a == Events[Last(StatusEvents)].action
              IN IF a = "submitted" THEN "Initiated"
                 ELSE IF a = "confirmed" THEN "Paid"
                 ELSE IF a = "cancelled" THEN "Cancelled"
                 ELSE "Failed"
    /\ \A m \in MandateIds :
         mandates[m] =
           IF MandateEvents(m) = {} THEN before.mandates[m]
           ELSE IF Events[Last(MandateEvents(m))].action \in
                     {"pending_customer_approval", "pending_submission",
                      "submitted", "active"}
                  THEN 0 ELSE 1

\* confirmed, then submitted: the request that was paid ends Initiated.
C20_Witness ==
  /\ pc = "done"
  /\ response = "200"
  /\ Events = <<EvPayConfirmed, EvPaySubmitted>>
  /\ before.pr.status = "Draft"
  /\ calls.set_as_paid = 1
  /\ pr.status = "Initiated"

(***************************************************************************)
(* The secret cache with callers in parallel: get_webhook_keys in the      *)
(* three steps of frappe.cache().get_value (look the key up, run the       *)
(* generator, store its result), and one writer that changes the settings  *)
(* and then calls clear_cache.                                             *)
(***************************************************************************)
\* the lookup: a hit returns the cached list, a miss goes on to the query
ReaderCheck(r) ==
  /\ readers[r].pc = "idle"
  /\ readers' =
       [readers EXCEPT ![r] =
          IF cache.set
            THEN [pc |-> "done", value |-> cache.value,
                  afterClear |-> hist.writer = "cleared"]
            ELSE [pc |-> "query", value |-> <<>>,
                  afterClear |-> hist.writer = "cleared"]]
  /\ UNCHANGED <<webhookVars, recordVars, settings, cache, hist, workers>>

\* _get_webhook_keys, lines 178-189
ReaderQuery(r) ==
  /\ readers[r].pc = "query"
  /\ readers' = [readers EXCEPT ![r].pc = "write",
                                ![r].value = QueryWebhookKeys(settings)]
  /\ UNCHANGED <<webhookVars, recordVars, settings, cache, hist, workers>>

\* the result of the generator is stored and returned
ReaderWrite(r) ==
  /\ readers[r].pc = "write"
  /\ cache' = Cached(readers[r].value)
  /\ readers' = [readers EXCEPT ![r].pc = "done"]
  /\ UNCHANGED <<webhookVars, recordVars, settings, hist, workers>>

WriterChange ==
  /\ hist.writer = "idle"
  /\ settings' \in SettingsFixtures \ {settings}
  /\ hist' = [hist EXCEPT !.writer = "changed"]
  /\ UNCHANGED <<webhookVars, recordVars, cache, readers, workers>>

WriterClear ==
  /\ hist.writer = "changed"
  /\ cache' = NoCache
  /\ hist' = [hist EXCEPT !.writer = "cleared"]
  /\ UNCHANGED <<webhookVars, recordVars, settings, readers, workers>>

\* The cache is empty or holds the secrets configured now.
InitCacheRace ==
  /\ req = NoRequest
  /\ pc = "idle"
  /\ idx = 0
  /\ authOk = FALSE
  /\ response = "pending"
  /\ raisedAt = 0
  /\ settings \in SettingsFixtures
  /\ cache \in {NoCache, Cached(QueryWebhookKeys(settings))}
  /\ erpnext = TRUE
  /\ InitRecords

NextCacheRace ==
  \/ \E r \in Readers : ReaderCheck(r)
  \/ \E r \in Readers : ReaderQuery(r)
  \/ \E r \in Readers : ReaderWrite(r)
  \/ WriterChange
  \/ WriterClear
SpecCacheRace == InitCacheRace /\ [][NextCacheRace]_vars

\* C14: every get_webhook_keys call that starts after the clear_cache that
\* followed the settings change has completed returns the secrets configured
\* in the settings store now; only a call already in flight when clear_cache
\* ran may return a stale list.
C14_FreshAfterClear ==
  \A r \in Readers :
    (readers[r].pc = "done" /\ readers[r].afterClear)
      => readers[r].value = QueryWebhookKeys(settings)

(***************************************************************************)
(* Two deliveries of the same confirmed event for the Payment Request,     *)
(* each in its own request: set_payment_request_status line by line.       *)
(***************************************************************************)
\* line 82: doc = frappe.get_doc("Payment Request", ...), a copy of the row
WorkerLoad(k) ==
  /\ workers[k].pc = "idle"
  /\ workers' = [workers EXCEPT ![k] = [pc |-> "loaded", status |-> pr.status]]
  /\ UNCHANGED <<webhookVars, recordVars, settings, cache, hist, readers>>

\* lines 83-84: doc.add_comment
WorkerComment(k) ==
  /\ workers[k].pc = "loaded"
  /\ pr' = AddComment(pr, PaymentComment(EvPayConfirmed))
  /\ workers' = [workers EXCEPT ![k].pc = "commented"]
  /\ UNCHANGED <<webhookVars, mandates, calls, ledger, journal_entry, errorLog,
                 settings, cache, hist, readers>>

\* line 87: the test of doc.status, on the copy loaded at line 82
WorkerCheck(k) ==
  /\ workers[k].pc = "commented"
  /\ workers' = [workers EXCEPT ![k].pc =
                   IF workers[k].status # "Paid" THEN "paying" ELSE "done"]
  /\ UNCHANGED <<webhookVars, recordVars, settings, cache, hist, readers>>

\* line 88: doc.set_as_paid()
WorkerMarkPaid(k) ==
  /\ workers[k].pc = "paying"
  /\ pr' = [pr EXCEPT !.status = "Paid"]
  /\ calls' = [calls EXCEPT !.set_as_paid = @ + 1]
  /\ workers' = [workers EXCEPT ![k] = [pc |-> "done", status |-> "Paid"]]
  /\ UNCHANGED <<webhookVars, mandates, ledger, journal_entry, errorLog,
                 settings, cache, hist, readers>>

InitRace ==
  /\ req = NoRequest
  /\ pc = "idle"
  /\ idx = 0
  /\ authOk = FALSE
  /\ response = "pending"
  /\ raisedAt = 0
  /\ settings \in SettingsFixtures
  /\ cache = NoCache
  /\ erpnext \in BOOLEAN
  /\ InitRecords

NextRace ==
  \/ \E k \in Workers : WorkerLoad(k)
  \/ \E k \in Workers : WorkerComment(k)
  \/ \E k \in Workers : WorkerCheck(k)
  \/ \E k \in Workers : WorkerMarkPaid(k)
SpecRace == InitRace /\ [][NextRace]_vars

\* C15: when two deliveries of the same confirmed event for the same Payment
\* Request are processed concurrently, the mark-paid transition is invoked at
\* most once in total and the final status is Paid.
C15_MarkPaidOnce ==
  /\ calls.set_as_paid <= 1
  /\ (\A k \in Workers : workers[k].pc = "done") => pr.status = "Paid"

====
